---- MODULE Spec2Model ----
(***************************************************************************)
(* Natural-Emotion-Processor: the fixed-slot feature records (Abstracts),  *)
(* the differential engine (DifferentialEngine.compute_delta) and the      *)
(* token assembler (extract_etoken) of src/src/main.py, with the audio and *)
(* text analysers it calls.                                                *)
(*                                                                         *)
(* Python values are tagged records.  Floats are fixed-point integers with *)
(* ScaleDigits decimal digits (1.0 is Scale).  An operator that can raise  *)
(* returns Ok(v) or Raise(exc).                                            *)
(***************************************************************************)
EXTENDS Integers, Sequences, FiniteSets, TLC

VARIABLES pc, text, audio_path, video_path, base_profiles, fs, dsp,
          result, delta_a, current, base, delta

vars == <<pc, text, audio_path, video_path, base_profiles, fs, dsp,
          result, delta_a, current, base, delta>>

----------------------------------------------------------------------------
(* Bounds of the model *)

\* decimal digits kept by the fixed-point model of a float
ScaleDigits == 5
\* how many keys a nested metric mapping handed to compute_delta may hold
MaxKeys == 2

----------------------------------------------------------------------------
(* Python values *)

NoneV == [t |-> "none"]
Num(n) == [t |-> "num", n |-> n]
Str(s) == [t |-> "str", s |-> s]
ListV == [t |-> "list"]
Dict(d) == [t |-> "dict", d |-> d]
NTuple(cls, f) == [t |-> "ntuple", cls |-> cls, f |-> f]

EmptyMap == [k \in {} |-> NoneV]

Ok(v) == [ok |-> TRUE, val |-> v]
Raise(e) == [ok |-> FALSE, exc |-> e]

IsNumber(v) == v.t = "num"
IsDict(v) == v.t = "dict"

\* bool(x): None, 0, "", an empty dict and a field-less namedtuple are falsy
Truthy(v) ==
    CASE v.t = "none" -> FALSE
      [] v.t = "num" -> v.n # 0
      [] v.t = "str" -> v.s # ""
      [] v.t = "list" -> TRUE
      [] v.t = "dict" -> DOMAIN v.d # {}
      [] v.t = "ntuple" -> DOMAIN v.f # {}

Put(d, k, v) == [x \in DOMAIN d \cup {k} |-> IF x = k THEN v ELSE d[x]]

Range(s) == {s[i] : i \in DOMAIN s}

RECURSIVE Pow10(_)
Pow10(k) == IF k = 0 THEN 1 ELSE 10 * Pow10(k - 1)

Scale == Pow10(ScaleDigits)

\* round(x, ndigits) on a value of the fixed-point model: to the nearest
\* multiple of 10^(ScaleDigits - ndigits), a half going to the even side
Round(x, ndigits) ==
    LET m == Pow10(ScaleDigits - ndigits)
        q == x \div m
        r == x % m
    IN  IF 2 * r < m THEN q * m
        ELSE IF 2 * r > m THEN (q + 1) * m
        ELSE IF q % 2 = 0 THEN q * m ELSE (q + 1) * m

----------------------------------------------------------------------------
(* Abstracts: the fixed slots of each modality *)

AudioFields == <<"pitch", "rhythm", "timbre", "accent", "pronunciations",
                 "intensity", "cords", "idiosyncrasies", "melody">>

VideoFields == <<>>

\* The slot names as declared.  They are not identifiers, so namedtuple
\* rejects the declaration with ValueError when main.py is loaded; the model
\* keeps the declared slots and follows the functions as they are written.
TextFields == <<"vocabulary-diversity", "word-preferences", "slang-rate",
                "Idiom-preferences", "Contraction-rate", "capitalization-ratio",
                "stop-words-rate", "punctuation-frequency", "typos-rate",
                "emoji-rate", "salutation-rate", "quoting-style",
                "abbreviation-rate">>

Fields(cls) ==
    CASE cls = "AudioAbstract" -> AudioFields
      [] cls = "VideoAbstract" -> VideoFields
      [] cls = "TextAbstract" -> TextFields

\* cls(**kwargs): every field defaults to None; a keyword that is no field
\* is a TypeError
Abstract(cls, kwargs) ==
    IF DOMAIN kwargs \subseteq Range(Fields(cls))
    THEN Ok(NTuple(cls, [f \in Range(Fields(cls)) |->
                            IF f \in DOMAIN kwargs THEN kwargs[f] ELSE NoneV]))
    ELSE Raise("TypeError")

AudioAbstract(kwargs) == Abstract("AudioAbstract", kwargs)
VideoAbstract(kwargs) == Abstract("VideoAbstract", kwargs)
TextAbstract(kwargs) == Abstract("TextAbstract", kwargs)

----------------------------------------------------------------------------
(* DifferentialEngine *)

\* getattr(base, field) succeeds
HasAttr(v, field) == v.t = "ntuple" /\ field \in DOMAIN v.f

\* the keys the comprehension of a nested slot visits
NestedKeys(c_val, b_val) ==
    {k \in DOMAIN c_val.d : IsNumber(c_val.d[k]) /\ k \in DOMAIN b_val.d}

\* {k: round(c_val[k] - b_val[k], 4) for k in c_val if ... and k in b_val}:
\* the subtraction raises TypeError when b_val[k] is no number
NestedDelta(c_val, b_val) ==
    LET keys == NestedKeys(c_val, b_val)
    IN  IF \E k \in keys : ~IsNumber(b_val.d[k])
        THEN Raise("TypeError")
        ELSE Ok(Dict([k \in keys |-> Num(Round(c_val.d[k].n - b_val.d[k].n, 4))]))

\* what one slot contributes: nothing (Omitted), a number or a nested mapping
Omitted == [t |-> "omitted"]

\* SlotDelta with an unset side read as zero
SlotDeltaZeroFill(c_val, b_val) ==
    IF (IsNumber(c_val) \/ c_val = NoneV) /\ (IsNumber(b_val) \/ b_val = NoneV)
    THEN Ok(Num(Round((IF IsNumber(c_val) THEN c_val.n ELSE 0)
                      - (IF IsNumber(b_val) THEN b_val.n ELSE 0), 4)))
    ELSE IF IsDict(c_val) /\ IsDict(b_val)
    THEN NestedDelta(c_val, b_val)
    ELSE Ok(Omitted)

\* lines 50-56
SlotDelta(c_val, b_val) ==
    IF IsNumber(c_val) /\ IsNumber(b_val)
    THEN Ok(Num(Round(c_val.n - b_val.n, 4)))
    ELSE IF IsDict(c_val) /\ IsDict(b_val)
    THEN NestedDelta(c_val, b_val)
    ELSE Ok(Omitted)

\* the loop over current._fields, from the i-th field on
RECURSIVE DeltaLoop(_, _, _, _)
DeltaLoop(cur, bas, i, acc) ==
    IF i > Len(Fields(cur.cls)) THEN Ok(Dict(acc))
    ELSE LET field == Fields(cur.cls)[i]
         IN  IF ~HasAttr(bas, field) THEN Raise("AttributeError")
             ELSE LET d == SlotDelta(cur.f[field], bas.f[field])
                  IN  IF ~d.ok THEN d
                      ELSE IF d.val = Omitted THEN DeltaLoop(cur, bas, i + 1, acc)
                      ELSE DeltaLoop(cur, bas, i + 1, Put(acc, field, d.val))

\* compute_delta without the test of the baseline
compute_delta_unguarded(cur, bas) ==
    IF ~Truthy(cur) THEN Ok(Dict(EmptyMap))
    ELSE IF cur.t # "ntuple" THEN Raise("AttributeError")
    ELSE DeltaLoop(cur, bas, 1, EmptyMap)

compute_delta(cur, bas) ==
    IF ~Truthy(cur) \/ ~Truthy(bas) THEN Ok(Dict(EmptyMap))
    ELSE IF cur.t # "ntuple" THEN Raise("AttributeError")
    ELSE DeltaLoop(cur, bas, 1, EmptyMap)

----------------------------------------------------------------------------
(* json.dumps of a deviation mapping *)

\* Every dict serialised here is filled by a loop over _fields or by the
\* dict literals of get_analysis, so its insertion order is the order of
\* this sequence.
DictKeyOrder ==
    <<"text_deviation", "audio_deviation">> \o AudioFields \o TextFields \o
    <<"mean_f0_hz", "stdev_f0_hz", "syllabic_rate_proxy", "total_duration_sec",
      "spectral_centroid_vectors", "mean_db", "max_db",
      "jitter_local_pct", "shimmer_local_pct">>

RECURSIVE FracRepr(_, _)
FracRepr(f, w) ==
    IF w = 0 THEN ""
    ELSE LET p == Pow10(w - 1)
         IN  ToString(f \div p) \o (IF f % p = 0 THEN "" ELSE FracRepr(f % p, w - 1))

\* repr of a float: sign, integer part, point, the decimals without trailing
\* zeros (at least one)
FloatRepr(n) ==
    LET a == IF n < 0 THEN 0 - n ELSE n
    IN  (IF n < 0 THEN "-" ELSE "") \o ToString(a \div Scale) \o "." \o
        FracRepr(a % Scale, ScaleDigits)

RECURSIVE JsonDumps(_)
RECURSIVE JsonItems(_, _, _)
JsonItems(d, keys, first) ==
    IF keys = <<>> THEN ""
    ELSE IF Head(keys) \notin DOMAIN d THEN JsonItems(d, Tail(keys), first)
    ELSE (IF first THEN "" ELSE ", ") \o "\"" \o Head(keys) \o "\": " \o
         JsonDumps(d[Head(keys)]) \o JsonItems(d, Tail(keys), FALSE)

JsonDumps(v) ==
    CASE v.t = "none" -> "null"
      [] v.t = "num" -> FloatRepr(v.n)
      [] v.t = "str" -> "\"" \o v.s \o "\""
      [] v.t = "dict" -> "{" \o JsonItems(v.d, DictKeyOrder, TRUE) \o "}"

----------------------------------------------------------------------------
(* AudioAnalyser.Analyser *)

NaN == [t |-> "nan"]

\* round(count / b, ndigits) of an integer count and a fixed-point b > 0
RoundQuot(count, b, ndigits) ==
    LET m == Pow10(ScaleDigits - ndigits)
        n == count * Scale * Pow10(ndigits)
        q == n \div b
        r == n % b
    IN  IF 2 * r < b THEN q * m
        ELSE IF 2 * r > b THEN (q + 1) * m
        ELSE IF q % 2 = 0 THEN q * m ELSE (q + 1) * m

\* the constructor: the asset must exist, and parselmouth must load it
AudioAnalyserInit(path, files, env) ==
    IF path.s \notin files THEN Raise("FileNotFoundError")
    ELSE IF ~env.sound_ok THEN Raise("PraatError")
    ELSE Ok(path)

\* round(float(x), nd) if not np.isnan(x) else None
RoundOrNone(x, ndigits) == IF x = NaN THEN NoneV ELSE Num(Round(x.n, ndigits))

\* round(float(x) * 100, 4) if not np.isnan(x) else None
PctOrNone(x) == IF x = NaN THEN NoneV ELSE Num(Round(x.n * 100, 4))

AudioMetrics(env) ==
    Dict([k \in {"pitch", "rhythm", "timbre", "accent", "pronunciations",
                 "intensity", "idiosyncrasies"} |->
        CASE k = "pitch" ->
                Dict([j \in {"mean_f0_hz", "stdev_f0_hz"} |->
                        IF j = "mean_f0_hz" THEN RoundOrNone(env.f0_mean, 2)
                        ELSE RoundOrNone(env.f0_std, 2)])
          [] k = "rhythm" ->
                Dict([j \in {"syllabic_rate_proxy", "total_duration_sec"} |->
                        IF j = "syllabic_rate_proxy"
                        THEN Num(RoundQuot(env.peaks, env.duration, 2))
                        ELSE Num(Round(env.duration, 2))])
          [] k = "timbre" -> Dict([j \in {"spectral_centroid_vectors"} |-> ListV])
          [] k = "accent" ->
                Str("HEURISTIC_REQUIRED: Requires linguistic phoneme distribution model.")
          [] k = "pronunciations" ->
                Str("ASR_REQUIRED: Requires acoustic-to-text alignment model.")
          [] k = "intensity" ->
                Dict([j \in {"mean_db", "max_db"} |->
                        IF j = "mean_db" THEN Num(Round(env.mean_db, 2))
                        ELSE Num(Round(env.max_db, 2))])
          [] k = "idiosyncrasies" ->
                Dict([j \in {"jitter_local_pct", "shimmer_local_pct"} |->
                        IF j = "jitter_local_pct" THEN PctOrNone(env.jitter)
                        ELSE PctOrNone(env.shimmer)])])

ErrorMapping(msg) == Dict([k \in {"error"} |-> Str(msg)])

\* get_analysis: whatever is raised inside the try block comes back as the
\* single-key error mapping
get_analysis(env) ==
    IF ~env.extract_ok THEN ErrorMapping("extraction failed")
    ELSE IF env.duration = 0 THEN ErrorMapping("division by zero")
    ELSE AudioMetrics(env)

----------------------------------------------------------------------------
(* TextAnalyser.Analyser *)

TextAnalyserMethods ==
    {"__init__", "_load_whitelist", "_get_diversity", "_get_prefs",
     "_get_slang_rate", "_get_idiom_rate", "_get_contraction_rate",
     "_get_cap_ratio", "_get_stop_rate", "_get_punc_freq", "_get_typos_rate",
     "_get_emoji_rate", "_get_salutation_rate", "_get_quoting_style",
     "_get_abbreviation_rate", "get_diagnostics"}

\* a metric computed by the external text services; its value is not modelled
Opaque == [t |-> "opaque"]

\* the mapping get_diagnostics returns for a non-empty text: its thirteen keys
get_diagnostics == Dict([k \in Range(TextFields) |-> Opaque])

\* TextAnalyser(text).<name>(): the attribute lookup comes first
TextAnalyserCall(name) ==
    IF name \notin TextAnalyserMethods THEN Raise("AttributeError")
    ELSE IF name = "get_diagnostics" THEN Ok(get_diagnostics)
    ELSE Ok(NoneV)

----------------------------------------------------------------------------
(* extract_etoken *)

DefaultBase ==
    Dict([m \in {"text", "audio", "video"} |->
            CASE m = "text" -> TextAbstract(EmptyMap).val
              [] m = "audio" -> AudioAbstract(EmptyMap).val
              [] m = "video" -> VideoAbstract(EmptyMap).val])

\* the defaults merged under whatever the caller supplied
ResolveBaseMerged(bp) ==
    IF bp = NoneV THEN DefaultBase
    ELSE Dict([m \in DOMAIN DefaultBase.d \cup DOMAIN bp.d |->
                  IF m \in DOMAIN bp.d THEN bp.d[m] ELSE DefaultBase.d[m]])

\* base_profiles or {...}
ResolveBase(bp) == IF Truthy(bp) THEN bp ELSE DefaultBase

\* d[k]
GetItem(d, k) == IF k \in DOMAIN d.d THEN Ok(d.d[k]) ELSE Raise("KeyError")

\* {k: v for k, v in raw.items() if k in fields}
Filter(raw, fields) ==
    [k \in {x \in DOMAIN raw.d : x \in Range(fields)} |-> raw.d[k]]

\* line 72
CurrText(txt) ==
    IF ~Truthy(txt) THEN Ok(NoneV)
    ELSE LET raw == TextAnalyserCall("get_analysis")
         IN  IF raw.ok THEN TextAbstract(raw.val.d) ELSE raw

\* lines 73-77
CurrAudio(path, files, env) ==
    IF ~Truthy(path) THEN Ok(NoneV)
    ELSE LET analyser == AudioAnalyserInit(path, files, env)
         IN  IF ~analyser.ok THEN analyser
             ELSE AudioAbstract(Filter(get_analysis(env), AudioFields))

\* lines 80-83: the two compute_delta calls, in order
DeltaA(curr_text, curr_audio, bas) ==
    LET bt == GetItem(bas, "text")
    IN  IF ~bt.ok THEN bt
        ELSE LET dt == compute_delta(curr_text, bt.val)
             IN  IF ~dt.ok THEN dt
                 ELSE LET ba == GetItem(bas, "audio")
                      IN  IF ~ba.ok THEN ba
                          ELSE LET da == compute_delta(curr_audio, ba.val)
                               IN  IF ~da.ok THEN da
                                   ELSE Ok(Dict([k \in {"text_deviation", "audio_deviation"} |->
                                                IF k = "text_deviation" THEN dt.val ELSE da.val]))

\* line 87
LogicalSchema(txt) == IF Truthy(txt) THEN txt.s ELSE ""

\* line 90
DeltaPrefix(d) == "[DELTA_A: " \o JsonDumps(d) \o "]"

\* the prefix kept only in front of a text
EmotionSchemaTextOnly(txt, d) ==
    IF Truthy(txt) THEN DeltaPrefix(d) \o " " \o txt.s ELSE ""

\* line 91
EmotionSchema(txt, d) ==
    IF Truthy(txt) THEN DeltaPrefix(d) \o " " \o txt.s ELSE DeltaPrefix(d)

EToken(logical_schema, emotion_schema, base_abstract, current_abstract) ==
    [logical_schema |-> logical_schema, emotion_schema |-> emotion_schema,
     base_abstract |-> base_abstract, current_abstract |-> current_abstract]

\* The whole call.  The value carries, beside the token, the local delta_a.
extract_etoken(txt, path, video, bp, files, env) ==
    LET bas == ResolveBase(bp)
        ct == CurrText(txt)
    IN  IF ~ct.ok THEN ct
        ELSE LET ca == CurrAudio(path, files, env)
             IN  IF ~ca.ok THEN ca
                 ELSE LET d == DeltaA(ct.val, ca.val, bas)
                      IN  IF ~d.ok THEN d
                          ELSE [ok |-> TRUE,
                                val |-> EToken(LogicalSchema(txt),
                                               EmotionSchema(txt, d.val),
                                               bas,
                                               [m \in {"text", "audio"} |->
                                                   IF m = "text" THEN ct.val ELSE ca.val]),
                                delta_a |-> d.val]

----------------------------------------------------------------------------
(* Inputs of a direct call of compute_delta *)

KeyNames == <<"mean_f0_hz", "stdev_f0_hz", "median_f0_hz", "range_f0_hz">>
KeySet == {KeyNames[i] : i \in 1..MaxKeys}

NestedVals == {Num(180 * Scale), Num(195 * Scale + Scale \div 2 + 13), NoneV, ListV}

DictVals == UNION {[ks -> NestedVals] : ks \in SUBSET KeySet}

ScalarVals == {Num(0), Num(13), Num(180 * Scale), Num(195 * Scale + Scale \div 2)}

SlotVals == {NoneV, Str("x")} \cup ScalarVals \cup {Dict(d) : d \in DictVals}

AllUnset(cls) == NTuple(cls, [f \in Range(Fields(cls)) |-> NoneV])

AudioInstances ==
    {NTuple("AudioAbstract",
            [f \in Range(AudioFields) |->
                IF f = "pitch" THEN p ELSE IF f = "cords" THEN c ELSE NoneV]) :
        p \in SlotVals, c \in {NoneV, Num(0), Num(13)}}

DeltaArgs == {NoneV, AllUnset("VideoAbstract")} \cup AudioInstances

----------------------------------------------------------------------------
(* Inputs of a request to extract_etoken *)

Texts == {NoneV, Str(""), Str("I'm so tired lol, lol!")}

Paths == {NoneV, Str(""), Str("voice.wav")}

\* what the file system holds
FileSystems == {{}, {"voice.wav"}}

\* What parselmouth and librosa do with the asset: whether the signal loads,
\* whether the extraction inside the try block raises, and the measures.
DspOutcomes ==
    [t : {"dsp"}, sound_ok : BOOLEAN, extract_ok : BOOLEAN,
     f0_mean : {NaN, Num(180 * Scale), Num(195 * Scale + Scale \div 2 + 400)},
     f0_std : {NaN, Num(20 * Scale + 251)},
     jitter : {NaN, Num(1234)},
     shimmer : {Num(5678)},
     peaks : {3},
     duration : {0, 2 * Scale},
     mean_db : {60 * Scale},
     max_db : {72 * Scale + 130}]

PitchOf(mean, std) ==
    Dict([j \in {"mean_f0_hz", "stdev_f0_hz"} |->
            IF j = "mean_f0_hz" THEN mean ELSE std])

AudioWith(pitch, intensity, accent) ==
    NTuple("AudioAbstract",
           [f \in Range(AudioFields) |->
               CASE f = "pitch" -> pitch
                 [] f = "intensity" -> intensity
                 [] f = "accent" -> accent
                 [] OTHER -> NoneV])

BaseAudio ==
    {AllUnset("AudioAbstract"),
     AudioWith(PitchOf(Num(180 * Scale), Num(20 * Scale)),
               Dict([j \in {"mean_db"} |-> Num(58 * Scale + 13)]), Str("neutral")),
     AudioWith(PitchOf(NoneV, Num(20 * Scale)), NoneV, NoneV),
     AudioWith(Dict(EmptyMap), Num(60 * Scale), NoneV)}

BaseProfiles ==
    {NoneV, Dict(EmptyMap),
     Dict([m \in {"text"} |-> AllUnset("TextAbstract")]),
     Dict([m \in {"text", "audio"} |-> NoneV])}
    \cup {Dict([m \in {"audio"} |-> a]) : a \in BaseAudio}
    \cup {Dict([m \in {"text", "audio"} |->
                  IF m = "text" THEN AllUnset("TextAbstract") ELSE a]) : a \in BaseAudio}
    \cup {Dict([m \in {"text", "audio", "video"} |->
                  CASE m = "text" -> AllUnset("TextAbstract")
                    [] m = "audio" -> a
                    [] m = "video" -> AllUnset("VideoAbstract")]) : a \in BaseAudio}

----------------------------------------------------------------------------
(* Actions *)

Init ==
    /\ pc = "idle"
    /\ text = NoneV /\ audio_path = NoneV /\ video_path = NoneV
    /\ base_profiles = NoneV
    /\ fs = {}
    /\ dsp = NoneV
    /\ result = NoneV
    /\ delta_a = NoneV
    /\ current = NoneV /\ base = NoneV /\ delta = NoneV

\* DifferentialEngine.compute_delta(c, b), called directly
ComputeDelta ==
    /\ pc = "idle"
    /\ \E c \in DeltaArgs, b \in DeltaArgs :
          /\ current' = c
          /\ base' = b
          /\ delta' = compute_delta(c, b)
    /\ pc' = "delta"
    /\ UNCHANGED <<text, audio_path, video_path, base_profiles, fs, dsp,
                   result, delta_a>>

\* a caller hands a request to extract_etoken
Call ==
    /\ pc = "idle"
    /\ text' \in Texts
    /\ audio_path' \in Paths
    /\ video_path' = NoneV
    /\ base_profiles' \in BaseProfiles
    /\ fs' \in FileSystems
    /\ dsp' \in DspOutcomes
    /\ pc' = "called"
    /\ UNCHANGED <<result, delta_a, current, base, delta>>

\* extract_etoken runs to its return or to the exception it raises
ExtractEToken ==
    /\ pc = "called"
    /\ LET r == extract_etoken(text, audio_path, video_path, base_profiles, fs, dsp)
       IN  /\ result' = IF r.ok THEN Ok(r.val) ELSE r
           /\ delta_a' = IF r.ok THEN r.delta_a ELSE NoneV
    /\ pc' = "returned"
    /\ UNCHANGED <<text, audio_path, video_path, base_profiles, fs, dsp,
                   current, base, delta>>

Done ==
    /\ pc \in {"delta", "returned"}
    /\ pc' = "idle"
    /\ text' = NoneV /\ audio_path' = NoneV /\ video_path' = NoneV
    /\ base_profiles' = NoneV
    /\ fs' = {}
    /\ dsp' = NoneV
    /\ result' = NoneV
    /\ delta_a' = NoneV
    /\ current' = NoneV /\ base' = NoneV /\ delta' = NoneV

Next == ComputeDelta \/ Call \/ ExtractEToken \/ Done

Spec == Init /\ [][Next]_vars

----------------------------------------------------------------------------
(* Vocabulary of the properties *)

TextSupplied == Truthy(text)
AudioSupplied == Truthy(audio_path)

TokenReturned == pc = "returned" /\ result.ok

\* the audio asset is missing, or the analyser raises while it runs
AudioFails ==
    /\ AudioSupplied
    /\ \/ audio_path.s \notin fs
       \/ ~dsp.sound_ok
       \/ ~dsp.extract_ok
       \/ dsp.duration = 0

\* get_analysis ran and gave back the single-key error mapping
AudioErrorMapping ==
    /\ AudioSupplied
    /\ audio_path.s \in fs
    /\ dsp.sound_ok
    /\ DOMAIN get_analysis(dsp).d = {"error"}

\* the same environment with the audio asset present and well-formed
Healthy(env) == [env EXCEPT !.sound_ok = TRUE, !.extract_ok = TRUE,
                            !.duration = 2 * Scale]

BothInstances ==
    /\ pc = "delta"
    /\ current.t = "ntuple" /\ base.t = "ntuple"
    /\ current.cls = base.cls

NumericOnBoth(c_val, b_val) ==
    {k \in DOMAIN c_val.d \cap DOMAIN b_val.d :
        IsNumber(c_val.d[k]) /\ IsNumber(b_val.d[k])}

NumericMapping(v) == IsDict(v) /\ \A k \in DOMAIN v.d : IsNumber(v.d[k])

----------------------------------------------------------------------------
(* C1 *)

\* C1: a request with at least one input whose audio analyser fails (missing
\* asset, or an exception while it runs) still returns a Token; the Token has
\* no current audio instance and an empty audio deviation, and its text
\* instance and text deviation are those of the same request without the
\* failure.
C1_FailureIsolated ==
    (pc = "returned" /\ (TextSupplied \/ AudioSupplied) /\ AudioFails) =>
        /\ result.ok
        /\ result.val.current_abstract["audio"] = NoneV
        /\ delta_a.d["audio_deviation"] = Dict(EmptyMap)
        /\ LET good == extract_etoken(text, audio_path, video_path, base_profiles,
                                      fs \cup {audio_path.s}, Healthy(dsp))
           IN  /\ good.ok
               /\ result.val.current_abstract["text"] = good.val.current_abstract["text"]
               /\ delta_a.d["text_deviation"] = good.delta_a.d["text_deviation"]

----------------------------------------------------------------------------
(* C2 *)

\* C2: when the audio analyser returns {"error": <message>}, the Token records
\* audio as absent (None), not as an all-unset instance, and "error" appears in
\* no instance and no deviation mapping.
C2_ErrorMappingMeansAbsent ==
    (TokenReturned /\ AudioErrorMapping) =>
        /\ result.val.current_abstract["audio"] = NoneV
        /\ "error" \notin DOMAIN delta_a.d["audio_deviation"].d
        /\ "error" \notin DOMAIN delta_a.d["text_deviation"].d

----------------------------------------------------------------------------
(* C3 *)

\* C3: for two instances of one modality compute_delta completes without
\* raising, and every slot that holds a nested mapping on both sides comes out
\* as the mapping of exactly the keys present and numeric on both sides, each
\* to round(current[key] - baseline[key], 4).
C3_NestedSlotDelta ==
    BothInstances =>
        /\ delta.ok
        /\ \A slot \in DOMAIN current.f :
              (IsDict(current.f[slot]) /\ IsDict(base.f[slot])) =>
                  /\ slot \in DOMAIN delta.val.d
                  /\ delta.val.d[slot] =
                        Dict([k \in NumericOnBoth(current.f[slot], base.f[slot]) |->
                                Num(Round(current.f[slot].d[k].n - base.f[slot].d[k].n, 4))])

----------------------------------------------------------------------------
(* C4 *)

\* C4 as claimed: a slot is in the result of compute_delta only if it is a
\* numeric scalar on both sides or a numeric-valued nested mapping on both
\* sides.
C4_SlotOnlyIfNumericOnBothSides ==
    (pc = "delta" /\ delta.ok) =>
        \A slot \in DOMAIN delta.val.d :
            \/ IsNumber(current.f[slot]) /\ IsNumber(base.f[slot])
            \/ NumericMapping(current.f[slot]) /\ NumericMapping(base.f[slot])

\* C4 as amended: a slot is in the result of compute_delta only if it is a
\* numeric scalar on both sides (and then it is a number) or a nested mapping
\* on both sides, whatever that mapping's values are (and then it is a mapping
\* of numbers over keys numeric on both sides, possibly empty); a slot unset on
\* one side, of mismatched types or holding a string is left out, never
\* reported as zero or null.
C4_SlotOnlyIfComparable ==
    (pc = "delta" /\ delta.ok) =>
        \A slot \in DOMAIN delta.val.d :
            /\ current.t = "ntuple" /\ base.t = "ntuple"
            /\ slot \in DOMAIN current.f
            /\ \/ /\ IsNumber(current.f[slot]) /\ IsNumber(base.f[slot])
                  /\ IsNumber(delta.val.d[slot])
               \/ /\ IsDict(current.f[slot]) /\ IsDict(base.f[slot])
                  /\ IsDict(delta.val.d[slot])
                  /\ \A k \in DOMAIN delta.val.d[slot].d :
                        /\ IsNumber(delta.val.d[slot].d[k])
                        /\ k \in NumericOnBoth(current.f[slot], base.f[slot])

\* a both-mapping slot with a non-numeric value comes out as an empty mapping,
\* while a slot numeric on one side and unset on the other is left out
C4_Witness ==
    /\ pc = "delta" /\ delta.ok
    /\ current.t = "ntuple" /\ base.t = "ntuple"
    /\ "pitch" \in DOMAIN delta.val.d
    /\ delta.val.d["pitch"] = Dict(EmptyMap)
    /\ IsDict(current.f["pitch"]) /\ ~NumericMapping(current.f["pitch"])
    /\ IsNumber(current.f["cords"]) /\ base.f["cords"] = NoneV
    /\ "cords" \notin DOMAIN delta.val.d

----------------------------------------------------------------------------
(* C5 *)

\* C5: the instance built from an analyser's raw mapping has exactly the
\* modality's declared slots, for text and for audio alike: a request with a
\* text (and nothing else that could fail) returns a Token whose text instance
\* has the thirteen text slots, and the audio instance of any Token is the raw
\* mapping restricted to the audio slots, unset where the raw mapping has no
\* key, with the retained values unchanged.
C5_ExactlyDeclaredSlots ==
    /\ (pc = "returned" /\ TextSupplied /\ ~AudioSupplied /\ base_profiles = NoneV) =>
          /\ result.ok
          /\ result.val.current_abstract["text"].t = "ntuple"
          /\ DOMAIN result.val.current_abstract["text"].f = Range(TextFields)
    /\ (TokenReturned /\ AudioSupplied) =>
          LET raw == get_analysis(dsp)
              inst == result.val.current_abstract["audio"]
          IN  /\ inst.t = "ntuple"
              /\ DOMAIN inst.f = Range(AudioFields)
              /\ \A f \in Range(AudioFields) :
                    inst.f[f] = IF f \in DOMAIN raw.d THEN raw.d[f] ELSE NoneV

----------------------------------------------------------------------------
(* C6 *)

\* C6: compute_delta of an absent or empty current or baseline is the empty
\* mapping, and in every Token a modality with no current instance has an
\* empty deviation mapping, whatever its baseline holds.
C6_AbsentGivesEmpty ==
    /\ (pc = "delta" /\ (~Truthy(current) \/ ~Truthy(base))) =>
          delta = Ok(Dict(EmptyMap))
    /\ TokenReturned =>
          /\ result.val.current_abstract["text"] = NoneV =>
                delta_a.d["text_deviation"] = Dict(EmptyMap)
          /\ result.val.current_abstract["audio"] = NoneV =>
                delta_a.d["audio_deviation"] = Dict(EmptyMap)

\* a Token without a current audio instance over a baseline whose audio
\* instance holds measured pitch
C6_Witness ==
    /\ TokenReturned
    /\ result.val.current_abstract["audio"] = NoneV
    /\ Truthy(result.val.base_abstract.d["audio"])
    /\ NumericMapping(result.val.base_abstract.d["audio"].f["pitch"])
    /\ result.val.base_abstract.d["audio"].f["pitch"].d # EmptyMap
    /\ delta_a.d["audio_deviation"] = Dict(EmptyMap)

----------------------------------------------------------------------------
(* C7 *)

\* C7: for two instances A, B of one modality compute_delta(A, B) and
\* compute_delta(B, A) hold the same slots and, in nested slots, the same
\* keys, every numeric entry of one is the negation of the other's, and
\* compute_delta(X, X) is zero on every numeric entry.
C7_Antisymmetric ==
    BothInstances =>
        LET rev == compute_delta(base, current)
        IN  /\ delta.ok /\ rev.ok
            /\ DOMAIN delta.val.d = DOMAIN rev.val.d
            /\ \A slot \in DOMAIN delta.val.d :
                  LET x == delta.val.d[slot]
                      y == rev.val.d[slot]
                  IN  /\ x.t = y.t
                      /\ IsNumber(x) => x.n = 0 - y.n
                      /\ IsDict(x) =>
                            /\ DOMAIN x.d = DOMAIN y.d
                            /\ \A k \in DOMAIN x.d : x.d[k].n = 0 - y.d[k].n
                      /\ current = base =>
                            /\ IsNumber(x) => x.n = 0
                            /\ IsDict(x) => \A k \in DOMAIN x.d : x.d[k].n = 0

\* the same relation between the two results when neither call raises
AntisymmetricWhenDefined ==
    BothInstances =>
        LET rev == compute_delta(base, current)
        IN  (delta.ok /\ rev.ok) =>
                /\ DOMAIN delta.val.d = DOMAIN rev.val.d
                /\ \A slot \in DOMAIN delta.val.d :
                      LET x == delta.val.d[slot]
                          y == rev.val.d[slot]
                      IN  /\ x.t = y.t
                          /\ IsNumber(x) => x.n = 0 - y.n
                          /\ IsDict(x) =>
                                /\ DOMAIN x.d = DOMAIN y.d
                                /\ \A k \in DOMAIN x.d : x.d[k].n = 0 - y.d[k].n

----------------------------------------------------------------------------
(* C8 *)

\* C8: a request with no text and no audio returns, for any baseline, a Token
\* with an empty logical schema, the bare deviation prefix (every deviation
\* mapping empty) as emotion schema, and no current instance for any modality.
C8_NoInputToken ==
    (pc = "returned" /\ ~TextSupplied /\ ~AudioSupplied) =>
        /\ result.ok
        /\ result.val.logical_schema = ""
        /\ result.val.emotion_schema =
              "[DELTA_A: {\"text_deviation\": {}, \"audio_deviation\": {}}]"
        /\ \A m \in DOMAIN result.val.current_abstract :
              result.val.current_abstract[m] = NoneV

----------------------------------------------------------------------------
(* C9 *)

----------------------------------------------------------------------------
(* C10 *)

\* C10 as claimed: the base abstract of a Token is the caller's mapping
\* whenever one is supplied, an empty one included, and the all-unset default
\* only when none is supplied.
C10_BaseIsSuppliedMapping ==
    TokenReturned =>
        /\ base_profiles # NoneV => result.val.base_abstract = base_profiles
        /\ base_profiles = NoneV => result.val.base_abstract = DefaultBase

\* C10 as amended: the base abstract of a Token is the caller's mapping, with
\* identical content, whenever a non-empty one is supplied (one lacking the
\* video entry included); it is the mapping of one all-unset instance for each
\* of text, audio and video when no baseline or an empty mapping is supplied;
\* and the call leaves the caller's mapping as it was.
C10_BaseIsSuppliedOrDefault ==
    /\ [](TokenReturned =>
            /\ Truthy(base_profiles) => result.val.base_abstract = base_profiles
            /\ ~Truthy(base_profiles) =>
                  result.val.base_abstract =
                      Dict([m \in {"text", "audio", "video"} |->
                              CASE m = "text" -> AllUnset("TextAbstract")
                                [] m = "audio" -> AllUnset("AudioAbstract")
                                [] m = "video" -> AllUnset("VideoAbstract")]))
    /\ [][pc = "called" => base_profiles' = base_profiles]_vars

\* a Token over a supplied baseline that has measured audio and no video entry
C10_Witness ==
    /\ TokenReturned
    /\ Truthy(base_profiles)
    /\ "video" \notin DOMAIN base_profiles.d
    /\ Truthy(base_profiles.d["audio"])
    /\ IsDict(base_profiles.d["audio"].f["pitch"])
    /\ result.val.base_abstract = base_profiles

====
